---- MODULE Spec2Model ----
(***************************************************************************)
(* The per-instrument limit order book of src/order_engine.rs: the two     *)
(* price ladders (BTreeMap<Decimal, Vec<Order>>), the order directory      *)
(* (HashMap<Uuid, Order>) and the two public operations add_order and      *)
(* cancel_order.  Decimals are modelled as naturals, Option<T> as a        *)
(* sequence of length 0 or 1, and a map as a function whose DOMAIN is the  *)
(* set of keys present.  Order ids are opaque and only ever compared for   *)
(* equality, so the caller's fresh ids are numbered in submission order.   *)
(***************************************************************************)
EXTENDS Integers, Sequences, FiniteSets, TLC

MaxOrders == 3
MaxPrice == 3
MaxQty == 2
NumBrokers == 1

OrderIds == 1..MaxOrders
Prices == 1..MaxPrice
Quantities == 1..MaxQty
Brokers == 1..NumBrokers

VARIABLES bids, asks, orders, trades, matched, cancelled, call, traded

vars == <<bids, asks, orders, trades, matched, cancelled, call, traded>>

----------------------------------------------------------------------------
(* Option<T> and the map primitives used by the book. *)

None == <<>>

Some(x) == <<x>>

EmptyMap == [k \in {} |-> <<>>]

MapInsert(m, k, v) == [x \in DOMAIN m \cup {k} |-> IF x = k THEN v ELSE m[x]]

MapRemove(m, k) == [x \in DOMAIN m \ {k} |-> m[x]]

Min(S) == CHOOSE x \in S : \A y \in S : x <= y

Max(S) == CHOOSE x \in S : \A y \in S : x >= y

DecimalMin(a, b) == IF a <= b THEN a ELSE b

Terminal == {"FILLED", "CANCELLED", "REJECTED"}

----------------------------------------------------------------------------
(* The private helpers of OrderBook. *)

\* get_best_ask taking the last entry of the ask map instead of the first
get_best_ask_last(a) ==
    IF DOMAIN a = {} THEN None
    ELSE LET price == Max(DOMAIN a) IN
         IF a[price] # <<>>
         THEN Some([price |-> price, order |-> a[price][1]])
         ELSE None

\* first entry of the ask map in key order: the lowest ask
get_best_ask(a) ==
    IF DOMAIN a = {} THEN None
    ELSE LET price == Min(DOMAIN a) IN
         IF a[price] # <<>>
         THEN Some([price |-> price, order |-> a[price][1]])
         ELSE None

\* first entry of the bid map in key order: BTreeMap iterates ascending
get_best_bid(b) ==
    IF DOMAIN b = {} THEN None
    ELSE LET price == Min(DOMAIN b) IN
         IF b[price] # <<>>
         THEN Some([price |-> price, order |-> b[price][1]])
         ELSE None

prices_match(side, order_price, book_price) ==
    IF side = "BUY" THEN order_price >= book_price
    ELSE order_price <= book_price

\* create_trade pricing the trade at the incoming order's limit price
create_trade_taker_price(order, matched_order, price, quantity) ==
    [buyer_order_id   |-> IF order.side = "BUY" THEN order.id ELSE matched_order.id,
     seller_order_id  |-> IF order.side = "SELL" THEN order.id ELSE matched_order.id,
     buyer_broker_id  |-> IF order.side = "BUY" THEN order.broker_id
                          ELSE matched_order.broker_id,
     seller_broker_id |-> IF order.side = "SELL" THEN order.broker_id
                          ELSE matched_order.broker_id,
     price            |-> IF order.price # None THEN order.price[1] ELSE price,
     quantity         |-> quantity,
     status           |-> "PENDING_SETTLEMENT"]

\* create_trade with the two broker ids taken from the wrong orders
create_trade_swapped_brokers(order, matched_order, price, quantity) ==
    [buyer_order_id   |-> IF order.side = "BUY" THEN order.id ELSE matched_order.id,
     seller_order_id  |-> IF order.side = "SELL" THEN order.id ELSE matched_order.id,
     buyer_broker_id  |-> IF order.side = "SELL" THEN order.broker_id
                          ELSE matched_order.broker_id,
     seller_broker_id |-> IF order.side = "BUY" THEN order.broker_id
                          ELSE matched_order.broker_id,
     price            |-> price,
     quantity         |-> quantity,
     status           |-> "PENDING_SETTLEMENT"]

create_trade(order, matched_order, price, quantity) ==
    [buyer_order_id   |-> IF order.side = "BUY" THEN order.id ELSE matched_order.id,
     seller_order_id  |-> IF order.side = "SELL" THEN order.id ELSE matched_order.id,
     buyer_broker_id  |-> IF order.side = "BUY" THEN order.broker_id
                          ELSE matched_order.broker_id,
     seller_broker_id |-> IF order.side = "SELL" THEN order.broker_id
                          ELSE matched_order.broker_id,
     price            |-> price,
     quantity         |-> quantity,
     status           |-> "PENDING_SETTLEMENT"]

\* UpdateLevel leaving the status of a partly filled front order as it was
UpdateLevelKeepsStatus(book, trade_quantity, price) ==
    IF price \in DOMAIN book /\ book[price] # <<>>
    THEN IF book[price][1].remaining_quantity = trade_quantity
         THEN IF Tail(book[price]) = <<>>
              THEN MapRemove(book, price)
              ELSE MapInsert(book, price, Tail(book[price]))
         ELSE MapInsert(book, price,
                 <<[book[price][1] EXCEPT
                       !.remaining_quantity = @ - trade_quantity]>>
                 \o Tail(book[price]))
    ELSE book

\* UpdateLevel pushing the updated copy of a partly filled order at the tail
\* instead of updating the front in place
UpdateLevelAppends(book, trade_quantity, price) ==
    IF price \in DOMAIN book /\ book[price] # <<>>
    THEN IF book[price][1].remaining_quantity = trade_quantity
         THEN IF Tail(book[price]) = <<>>
              THEN MapRemove(book, price)
              ELSE MapInsert(book, price, Tail(book[price]))
         ELSE MapInsert(book, price,
                 Append(book[price],
                        [book[price][1] EXCEPT
                            !.remaining_quantity = @ - trade_quantity,
                            !.status = "PARTIAL"]))
    ELSE book

\* UpdateLevel leaving the key of a level in the map when its last order is
\* filled
UpdateLevelKeepsEmpty(book, trade_quantity, price) ==
    IF price \in DOMAIN book /\ book[price] # <<>>
    THEN IF book[price][1].remaining_quantity = trade_quantity
         THEN MapInsert(book, price, Tail(book[price]))
         ELSE MapInsert(book, price,
                 <<[book[price][1] EXCEPT
                       !.remaining_quantity = @ - trade_quantity,
                       !.status = "PARTIAL"]>> \o Tail(book[price]))
    ELSE book

\* UpdateLevel moving a partly filled order to the back of its level
UpdateLevelRequeues(book, trade_quantity, price) ==
    IF price \in DOMAIN book /\ book[price] # <<>>
    THEN IF book[price][1].remaining_quantity = trade_quantity
         THEN IF Tail(book[price]) = <<>>
              THEN MapRemove(book, price)
              ELSE MapInsert(book, price, Tail(book[price]))
         ELSE MapInsert(book, price,
                 Append(Tail(book[price]),
                        [book[price][1] EXCEPT
                            !.remaining_quantity = @ - trade_quantity,
                            !.status = "PARTIAL"]))
    ELSE book

\* the ladder part of update_matched_order: the front of the level at price
UpdateLevel(book, trade_quantity, price) ==
    IF price \in DOMAIN book /\ book[price] # <<>>
    THEN IF book[price][1].remaining_quantity = trade_quantity
         THEN IF Tail(book[price]) = <<>>
              THEN MapRemove(book, price)
              ELSE MapInsert(book, price, Tail(book[price]))
         ELSE MapInsert(book, price,
                 <<[book[price][1] EXCEPT
                       !.remaining_quantity = @ - trade_quantity,
                       !.status = "PARTIAL"]>> \o Tail(book[price]))
    ELSE book

\* update_matched_order recording every matched order as FILLED
update_matched_order_always_filled(b, matched_order, trade_quantity, price, side) ==
    LET updated_order == [matched_order EXCEPT
                             !.remaining_quantity = @ - trade_quantity,
                             !.status = "FILLED"]
    IN [bids   |-> IF side = "BUY" THEN b.bids
                   ELSE UpdateLevel(b.bids, trade_quantity, price),
        asks   |-> IF side = "BUY" THEN UpdateLevel(b.asks, trade_quantity, price)
                   ELSE b.asks,
        orders |-> MapInsert(b.orders, updated_order.id, updated_order)]

\* update_matched_order writing the matched order back to the directory
\* without subtracting the trade quantity
update_matched_order_stale(b, matched_order, trade_quantity, price, side) ==
    LET updated_order == [matched_order EXCEPT !.status = "PARTIAL"]
    IN [bids   |-> IF side = "BUY" THEN b.bids
                   ELSE UpdateLevel(b.bids, trade_quantity, price),
        asks   |-> IF side = "BUY" THEN UpdateLevel(b.asks, trade_quantity, price)
                   ELSE b.asks,
        orders |-> MapInsert(b.orders, updated_order.id, updated_order)]

\* b is the book [bids, asks, orders]; side is the incoming order's side
update_matched_order(b, matched_order, trade_quantity, price, side) ==
    LET remaining == matched_order.remaining_quantity - trade_quantity
        updated_order == [matched_order EXCEPT
                             !.remaining_quantity = remaining,
                             !.status = IF remaining = 0 THEN "FILLED"
                                        ELSE "PARTIAL"]
    IN [bids   |-> IF side = "BUY" THEN b.bids
                   ELSE UpdateLevel(b.bids, trade_quantity, price),
        asks   |-> IF side = "BUY" THEN UpdateLevel(b.asks, trade_quantity, price)
                   ELSE b.asks,
        orders |-> MapInsert(b.orders, updated_order.id, updated_order)]

----------------------------------------------------------------------------
(* One iteration of the matching loop.  st is the loop state: the book     *)
(* fields, the incoming order, the trades pushed so far, and for every     *)
(* trade a record of what the loop saw when it generated it.               *)

MatchOnce(st, best_price, matched_order) ==
    LET order == st.order
        trade_quantity == DecimalMin(order.remaining_quantity,
                                     matched_order.remaining_quantity)
        trade == create_trade(order, matched_order, best_price, trade_quantity)
        remaining == order.remaining_quantity - trade_quantity
        order2 == [order EXCEPT
                      !.remaining_quantity = remaining,
                      !.status = IF remaining = 0 THEN "FILLED" ELSE "PARTIAL"]
        b == update_matched_order([bids |-> st.bids, asks |-> st.asks,
                                   orders |-> st.orders],
                                  matched_order, trade_quantity, best_price,
                                  order.side)
        opposite == IF order.side = "BUY" THEN st.asks ELSE st.bids
        seen == [incoming |-> order,
                 resting  |-> matched_order,
                 levels   |-> DOMAIN opposite,
                 queue    |-> [i \in DOMAIN opposite[best_price] |->
                                  opposite[best_price][i].id]]
    IN [bids    |-> b.bids,
        asks    |-> b.asks,
        orders  |-> b.orders,
        order   |-> order2,
        trades  |-> Append(st.trades, trade),
        matched |-> Append(st.matched, seen)]

\* the limit loop with self-trade prevention: it stops at a resting order of
\* the incoming order's broker
RECURSIVE LimitLoopNoSelfTrade(_)
LimitLoopNoSelfTrade(st) ==
    LET side == st.order.side
        price == st.order.price[1]
        matching_order_opt == IF side = "BUY" THEN get_best_ask(st.asks)
                              ELSE get_best_bid(st.bids)
    IN IF matching_order_opt # None
          /\ prices_match(side, price, matching_order_opt[1].price)
          /\ matching_order_opt[1].order.broker_id # st.order.broker_id
       THEN LET next == MatchOnce(st, matching_order_opt[1].price,
                                  matching_order_opt[1].order)
            IN IF next.order.remaining_quantity = 0 THEN next
               ELSE LimitLoopNoSelfTrade(next)
       ELSE st

\* the limit loop leaving after its first trade
LimitLoopOnce(st) ==
    LET side == st.order.side
        price == st.order.price[1]
        matching_order_opt == IF side = "BUY" THEN get_best_ask(st.asks)
                              ELSE get_best_bid(st.bids)
    IN IF matching_order_opt # None
          /\ prices_match(side, price, matching_order_opt[1].price)
       THEN MatchOnce(st, matching_order_opt[1].price,
                      matching_order_opt[1].order)
       ELSE st

RECURSIVE LimitLoop(_)
LimitLoop(st) ==
    LET side == st.order.side
        price == st.order.price[1]
        matching_order_opt == IF side = "BUY" THEN get_best_ask(st.asks)
                              ELSE get_best_bid(st.bids)
    IN IF matching_order_opt # None
          /\ prices_match(side, price, matching_order_opt[1].price)
       THEN LET next == MatchOnce(st, matching_order_opt[1].price,
                                  matching_order_opt[1].order)
            IN IF next.order.remaining_quantity = 0 THEN next
               ELSE LimitLoop(next)
       ELSE st

\* the market loop leaving after its first trade
MarketLoopOnce(st) ==
    LET side == st.order.side
        matching_order_opt == IF side = "BUY" THEN get_best_ask(st.asks)
                              ELSE get_best_bid(st.bids)
    IN IF matching_order_opt # None
       THEN MatchOnce(st, matching_order_opt[1].price,
                      matching_order_opt[1].order)
       ELSE [st EXCEPT !.order.status = "REJECTED"]

RECURSIVE MarketLoop(_)
MarketLoop(st) ==
    LET side == st.order.side
        matching_order_opt == IF side = "BUY" THEN get_best_ask(st.asks)
                              ELSE get_best_bid(st.bids)
    IN IF matching_order_opt # None
       THEN LET next == MatchOnce(st, matching_order_opt[1].price,
                                  matching_order_opt[1].order)
            IN IF next.order.remaining_quantity = 0 THEN next
               ELSE MarketLoop(next)
       ELSE [st EXCEPT !.order.status = "REJECTED"]

\* PushOrder inserting at the front of the level instead of the tail
PushOrderFront(book, price, order) ==
    MapInsert(book, price,
              <<order>> \o (IF price \in DOMAIN book THEN book[price] ELSE <<>>))

\* PushOrder storing a new level under the price (BTreeMap::insert) instead
\* of pushing to the level already there
PushOrderReplacesLevel(book, price, order) ==
    MapInsert(book, price, <<order>>)

\* push at the tail of the level at price, creating the level if absent
PushOrder(book, price, order) ==
    MapInsert(book, price,
              (IF price \in DOMAIN book THEN book[price] ELSE <<>>) \o <<order>>)

\* process_limit_order resting the order whatever its remaining quantity
process_limit_order_always_rests(st0) ==
    LET st == LimitLoop(st0)
        order == st.order
        price == order.price[1]
    IN [st EXCEPT
          !.bids = IF order.side = "BUY"
                   THEN PushOrder(st.bids, price, order) ELSE @,
          !.asks = IF order.side = "SELL"
                   THEN PushOrder(st.asks, price, order) ELSE @,
          !.orders = MapInsert(st.orders, order.id, order)]

process_limit_order(st0) ==
    LET st == LimitLoop(st0)
        order == st.order
        price == order.price[1]
        rests == order.remaining_quantity > 0
    IN [st EXCEPT
          !.bids = IF rests /\ order.side = "BUY"
                   THEN PushOrder(st.bids, price, order) ELSE @,
          !.asks = IF rests /\ order.side = "SELL"
                   THEN PushOrder(st.asks, price, order) ELSE @,
          !.orders = MapInsert(st.orders, order.id, order)]

\* process_market_order recording the order as it was submitted instead of
\* the order the loop updated
process_market_order_unrecorded(st0) ==
    LET st == MarketLoop(st0)
    IN [st EXCEPT !.orders = MapInsert(st.orders, st0.order.id, st0.order)]

\* process_market_order returning without recording a REJECTED order
process_market_order_drops_rejected(st0) ==
    LET st == MarketLoop(st0)
    IN IF st.order.remaining_quantity > 0
       THEN [st EXCEPT !.order.status = "REJECTED"]
       ELSE [st EXCEPT !.orders = MapInsert(st.orders, st.order.id, st.order)]

\* process_market_order recording an unfilled order as PENDING or PARTIAL,
\* as process_limit_order does, instead of REJECTED
process_market_order_keeps_open(st0) ==
    LET st == MarketLoop(st0)
        order == IF st.order.remaining_quantity > 0
                 THEN [st.order EXCEPT
                          !.status = IF st.trades = <<>> THEN "PENDING"
                                     ELSE "PARTIAL"]
                 ELSE st.order
    IN [st EXCEPT !.order = order,
                  !.orders = MapInsert(st.orders, order.id, order)]

process_market_order(st0) ==
    LET st == MarketLoop(st0)
        order == IF st.order.remaining_quantity > 0
                 THEN [st.order EXCEPT !.status = "REJECTED"]
                 ELSE st.order
    IN [st EXCEPT !.order = order,
                  !.orders = MapInsert(st.orders, order.id, order)]

----------------------------------------------------------------------------
(* The public operations. *)

\* the ids named as buyer or seller by the trades of one call
TradedWith(ts, id) ==
    LET RECURSIVE Sum(_)
        Sum(i) == IF i = 0 THEN 0
                  ELSE Sum(i - 1)
                       + (IF ts[i].buyer_order_id = id \/ ts[i].seller_order_id = id
                          THEN ts[i].quantity ELSE 0)
    IN Sum(Len(ts))

add_order(order0) ==
    LET order == [order0 EXCEPT !.status = "PENDING"]
        st0 == [bids |-> bids, asks |-> asks, orders |-> orders,
                order |-> order, trades |-> <<>>, matched |-> <<>>]
        st == IF order.order_type = "LIMIT" THEN process_limit_order(st0)
              ELSE process_market_order(st0)
    IN /\ bids' = st.bids
       /\ asks' = st.asks
       /\ orders' = st.orders
       /\ trades' = st.trades
       /\ matched' = st.matched
       /\ cancelled' = None
       /\ call' = [op |-> "add_order", id |-> order.id]
       /\ traded' = [i \in OrderIds |-> traded[i] + TradedWith(st.trades, i)]

\* the position of the first order of the level with this id, 0 if none
Position(level, order_id) ==
    IF \E i \in DOMAIN level : level[i].id = order_id
    THEN Min({i \in DOMAIN level : level[i].id = order_id})
    ELSE 0

\* Vec::swap_remove: the last element takes the place of the removed one
SwapRemoveAt(level, pos) ==
    [i \in 1..(Len(level) - 1) |-> IF i = pos THEN level[Len(level)]
                                   ELSE level[i]]

\* Vec::remove: the elements behind pos shift to the front by one
RemoveAt(level, pos) ==
    [i \in 1..(Len(level) - 1) |-> IF i < pos THEN level[i] ELSE level[i + 1]]

\* cancel_order without the status check, marking the directory entry
\* CANCELLED whether or not the order is found in its ladder
CancelResultUnchecked(order_id) ==
    IF order_id \notin DOMAIN orders
    THEN [bids |-> bids, asks |-> asks, orders |-> orders, ret |-> None]
    ELSE LET order == orders[order_id]
             side == order.side
             book == IF side = "BUY" THEN bids ELSE asks
             found == /\ order.price # None
                      /\ order.price[1] \in DOMAIN book
                      /\ Position(book[order.price[1]], order_id) # 0
             level == IF found
                      THEN RemoveAt(book[order.price[1]],
                                    Position(book[order.price[1]], order_id))
                      ELSE <<>>
             book2 == IF ~found THEN book
                      ELSE IF level = <<>> THEN MapRemove(book, order.price[1])
                      ELSE MapInsert(book, order.price[1], level)
             updated_order == [order EXCEPT !.status = "CANCELLED"]
         IN [bids |-> IF side = "BUY" THEN book2 ELSE bids,
             asks |-> IF side = "BUY" THEN asks ELSE book2,
             orders |-> MapInsert(orders, order_id, updated_order),
             ret |-> Some(updated_order)]

\* cancel_order marking the directory entry CANCELLED and leaving the order
\* in its level
CancelResultKeepsLadder(order_id) ==
    LET unchanged == [bids |-> bids, asks |-> asks, orders |-> orders,
                      ret |-> None]
    IN IF order_id \notin DOMAIN orders THEN unchanged
       ELSE LET order == orders[order_id] IN
            IF order.status # "PENDING" /\ order.status # "PARTIAL"
            THEN unchanged
            ELSE LET updated_order == [order EXCEPT !.status = "CANCELLED"]
                 IN [bids |-> bids, asks |-> asks,
                     orders |-> MapInsert(orders, order_id, updated_order),
                     ret |-> Some(updated_order)]

\* the result of cancel_order: the book fields and the value returned
CancelResult(order_id) ==
    LET unchanged == [bids |-> bids, asks |-> asks, orders |-> orders,
                      ret |-> None]
    IN IF order_id \notin DOMAIN orders THEN unchanged
       ELSE LET order == orders[order_id] IN
            IF order.status # "PENDING" /\ order.status # "PARTIAL"
            THEN unchanged
            ELSE LET price == order.price[1]
                     side == order.side
                     book == IF side = "BUY" THEN bids ELSE asks
                 IN IF price \in DOMAIN book
                       /\ Position(book[price], order_id) # 0
                    THEN LET pos == Position(book[price], order_id)
                             cancelled_order == book[price][pos]
                             level == RemoveAt(book[price], pos)
                             book2 == IF level = <<>>
                                      THEN MapRemove(book, price)
                                      ELSE MapInsert(book, price, level)
                             updated_order == [cancelled_order EXCEPT
                                                  !.status = "CANCELLED"]
                         IN [bids |-> IF side = "BUY" THEN book2 ELSE bids,
                             asks |-> IF side = "BUY" THEN asks ELSE book2,
                             orders |-> MapInsert(orders, order_id,
                                                  updated_order),
                             ret |-> Some(updated_order)]
                    ELSE unchanged

cancel_order(order_id) ==
    LET r == CancelResult(order_id)
    IN /\ bids' = r.bids
       /\ asks' = r.asks
       /\ orders' = r.orders
       /\ cancelled' = r.ret
       /\ trades' = <<>>
       /\ matched' = <<>>
       /\ call' = [op |-> "cancel_order", id |-> order_id]
       /\ UNCHANGED traded

----------------------------------------------------------------------------
(* The callers: every submitted order has a fresh id, a positive quantity, *)
(* remaining = original, and a positive price iff it is a LIMIT order.     *)

FreshId == Cardinality(DOMAIN orders) + 1

NewOrder(id, broker, type, side, price, qty) ==
    [id |-> id, broker_id |-> broker, order_type |-> type, side |-> side,
     status |-> "PENDING", price |-> price,
     original_quantity |-> qty, remaining_quantity |-> qty]

Init ==
    /\ bids = EmptyMap
    /\ asks = EmptyMap
    /\ orders = EmptyMap
    /\ trades = <<>>
    /\ matched = <<>>
    /\ cancelled = None
    /\ call = [op |-> "new", id |-> 0]
    /\ traded = [i \in OrderIds |-> 0]

SubmitLimit ==
    /\ FreshId \in OrderIds
    /\ \E broker \in Brokers, side \in {"BUY", "SELL"},
          price \in Prices, qty \in Quantities :
          add_order(NewOrder(FreshId, broker, "LIMIT", side, Some(price), qty))

SubmitMarket ==
    /\ FreshId \in OrderIds
    /\ \E broker \in Brokers, side \in {"BUY", "SELL"}, qty \in Quantities :
          add_order(NewOrder(FreshId, broker, "MARKET", side, None, qty))

Cancel ==
    \E order_id \in OrderIds : cancel_order(order_id)

Next == SubmitLimit \/ SubmitMarket \/ Cancel

Spec == Init /\ [][Next]_vars

----------------------------------------------------------------------------
(* The same callers submitting for more than one broker.  Broker ids are   *)
(* opaque and only copied, so the brokers are numbered in the order in     *)
(* which they first submit: an order comes from a broker seen before or    *)
(* from the next new one.                                                  *)

WideBrokers == 1..(NumBrokers + 1)

KnownBrokers == {orders[id].broker_id : id \in DOMAIN orders}

BrokerChoices == {b \in WideBrokers : b <= Cardinality(KnownBrokers) + 1}

SubmitLimitAs ==
    /\ FreshId \in OrderIds
    /\ \E broker \in BrokerChoices, side \in {"BUY", "SELL"},
          price \in Prices, qty \in Quantities :
          add_order(NewOrder(FreshId, broker, "LIMIT", side, Some(price), qty))

SubmitMarketAs ==
    /\ FreshId \in OrderIds
    /\ \E broker \in BrokerChoices, side \in {"BUY", "SELL"},
          qty \in Quantities :
          add_order(NewOrder(FreshId, broker, "MARKET", side, None, qty))

NextBrokers == SubmitLimitAs \/ SubmitMarketAs \/ Cancel

SpecBrokers == Init /\ [][NextBrokers]_vars

----------------------------------------------------------------------------
(* Properties of the book. *)

BestBid == Max(DOMAIN bids)

BestAsk == Min(DOMAIN asks)

\* C1: no crossed book at rest: after any sequence of add_order and
\* cancel_order calls, whenever both ladders are non-empty the highest bid
\* price is strictly less than the lowest ask price.
NoCrossedBook ==
    (DOMAIN bids # {} /\ DOMAIN asks # {}) => BestBid < BestAsk

\* C2: price priority on the bid side: every trade of a SELL order is made
\* against a resting bid whose price is greater than or equal to every bid
\* price present in the ladder when the trade was generated.
PricePriorityBids ==
    \A i \in DOMAIN matched :
        matched[i].incoming.side = "SELL" =>
            \A p \in matched[i].levels : matched[i].resting.price[1] >= p

\* C3: price priority on the ask side: every trade of a BUY order is made
\* against a resting ask whose price is less than or equal to every ask price
\* present when the trade was generated, and the trades returned by one
\* add_order of a BUY are in non-decreasing price order.
PricePriorityAsks ==
    /\ \A i \in DOMAIN matched :
           matched[i].incoming.side = "BUY" =>
               /\ matched[i].resting.side = "SELL"
               /\ \A p \in matched[i].levels : matched[i].resting.price[1] <= p
    /\ (call.op = "add_order" /\ orders[call.id].side = "BUY") =>
           \A i, j \in DOMAIN trades : i < j => trades[i].price <= trades[j].price

\* a BUY walked the ask ladder upwards over two price levels
BuyWalksAsks ==
    /\ call.op = "add_order"
    /\ orders[call.id].side = "BUY"
    /\ Len(trades) = 2
    /\ trades[1].price < trades[2].price
    /\ matched[1].levels = {trades[1].price, trades[2].price}

\* the ids of the orders of one level, front first
LevelIds(level) == [i \in DOMAIN level |-> level[i].id]

\* ids are numbered in submission order: a level in insertion order has
\* strictly increasing ids
InInsertionOrder(ids) ==
    \A i, j \in DOMAIN ids : i < j => ids[i] < ids[j]

\* C4: time priority: within one price level resting orders are matched
\* strictly in the order add_order inserted them: every level of both
\* ladders is in insertion order after every call (cancel_order keeps the
\* relative order of the others), and every trade is made against the
\* earliest-inserted order present at its level when the trade was generated.
TimePriority ==
    /\ \A p \in DOMAIN bids : InInsertionOrder(LevelIds(bids[p]))
    /\ \A p \in DOMAIN asks : InInsertionOrder(LevelIds(asks[p]))
    /\ \A i \in DOMAIN matched :
           \A k \in DOMAIN matched[i].queue :
               matched[i].resting.id <= matched[i].queue[k]

\* a trade was made at a level holding two orders, and the later one is
\* still resting behind the earlier one
EarlierServedFirst ==
    \E i \in DOMAIN matched :
        /\ Len(matched[i].queue) >= 2
        /\ matched[i].incoming.remaining_quantity
               < matched[i].resting.remaining_quantity
        /\ LET book == IF matched[i].resting.side = "BUY" THEN bids ELSE asks
               p == matched[i].resting.price[1]
           IN /\ p \in DOMAIN book
              /\ LevelIds(book[p]) = matched[i].queue

\* C5: trade price = maker price: every trade returned by add_order is priced
\* at the price recorded on the resting order it was matched against, which
\* is also the key of that order's level, never at the incoming order's price
\* when the two differ.
TradePriceIsMakerPrice ==
    /\ Len(trades) = Len(matched)
    /\ \A i \in DOMAIN trades :
           /\ matched[i].resting.price # None
           /\ trades[i].price = matched[i].resting.price[1]
           /\ trades[i].price \in matched[i].levels

\* a LIMIT BUY crossed an ask below its own price
BuyAboveAskTradesAtAsk ==
    \E i \in DOMAIN trades :
        /\ matched[i].incoming.order_type = "LIMIT"
        /\ matched[i].incoming.side = "BUY"
        /\ matched[i].incoming.price[1] > matched[i].resting.price[1]
        /\ trades[i].price = matched[i].resting.price[1]

\* C6: conservation of quantity: every trade has quantity
\* min(incoming.remaining, resting.remaining) > 0 as they were at match time,
\* both orders' remaining quantities decrease by exactly that amount, and for
\* every order in the directory original - remaining is the sum of the
\* quantities of all trades ever returned that name it as buyer or seller.
ConservationOfQuantity ==
    /\ Len(trades) = Len(matched)
    /\ \A i \in DOMAIN trades :
           LET inc == matched[i].incoming
               rest == matched[i].resting
               q == trades[i].quantity
           IN /\ q > 0
              /\ q <= inc.remaining_quantity
              /\ q <= rest.remaining_quantity
              /\ q = inc.remaining_quantity \/ q = rest.remaining_quantity
              /\ orders[rest.id].remaining_quantity = rest.remaining_quantity - q
              /\ IF i < Len(trades)
                 THEN matched[i + 1].incoming.remaining_quantity
                          = inc.remaining_quantity - q
                 ELSE orders[inc.id].remaining_quantity
                          = inc.remaining_quantity - q
    /\ \A id \in DOMAIN orders :
           orders[id].original_quantity - orders[id].remaining_quantity
               = traded[id]

\* an order was filled in two trades of two different calls
FilledInTwoCalls ==
    \E id \in DOMAIN orders :
        /\ orders[id].status = "FILLED"
        /\ traded[id] = 2
        /\ TradedWith(trades, id) = 1

\* C7: terminal-state immutability: once a directory entry is FILLED,
\* CANCELLED or REJECTED, no later add_order (of another id) or cancel_order
\* changes its status or its remaining quantity.
TerminalImmutable ==
    [][\A id \in DOMAIN orders :
          orders[id].status \in Terminal =>
              /\ id \in DOMAIN orders'
              /\ orders'[id].status = orders[id].status
              /\ orders'[id].remaining_quantity
                     = orders[id].remaining_quantity]_vars

\* an add_order matched at the price of an order FILLED or CANCELLED before
TradeAtPriceOfTerminalOrder ==
    /\ call.op = "add_order"
    /\ \E id \in DOMAIN orders, i \in DOMAIN trades :
           /\ id < call.id
           /\ orders[id].status \in {"FILLED", "CANCELLED"}
           /\ id # matched[i].resting.id
           /\ orders[id].side = matched[i].resting.side
           /\ orders[id].price = matched[i].resting.price

\* the ladder without the order of this id, and without the level it empties
Without(book, order_id) ==
    LET Other(o) == o.id # order_id
        keep == {p \in DOMAIN book : SelectSeq(book[p], Other) # <<>>}
    IN [p \in keep |-> SelectSeq(book[p], Other)]

IdsIn(book) == {book[p][i].id : <<p, i>> \in
                   UNION {{p} \X DOMAIN book[p] : p \in DOMAIN book}}

\* C8: cancel_order of a resting order (directory status PENDING or PARTIAL)
\* removes exactly that order from its level, deletes the level if it is then
\* empty, returns the order with status CANCELLED and its remaining quantity
\* unchanged, stores that value in the directory and produces no trades; the
\* other resting orders, the opposite ladder and the other directory entries
\* are unchanged.
CancelRestingEffect ==
    [][(/\ call'.op = "cancel_order"
        /\ call'.id \in DOMAIN orders
        /\ orders[call'.id].status \in {"PENDING", "PARTIAL"})
       => LET id == call'.id
              was == orders[id]
              now == [was EXCEPT !.status = "CANCELLED"]
          IN /\ cancelled' = Some(now)
             /\ DOMAIN orders' = DOMAIN orders
             /\ \A k \in DOMAIN orders :
                    orders'[k] = IF k = id THEN now ELSE orders[k]
             /\ trades' = <<>>
             /\ id \in IdsIn(IF was.side = "BUY" THEN bids ELSE asks)
             /\ bids' = IF was.side = "BUY" THEN Without(bids, id) ELSE bids
             /\ asks' = IF was.side = "SELL" THEN Without(asks, id) ELSE asks
      ]_vars

\* a partially filled order was cancelled from a level where another order
\* still rests
CancelledPartialLeavesLevel ==
    /\ call.op = "cancel_order"
    /\ cancelled # None
    /\ cancelled[1].remaining_quantity < cancelled[1].original_quantity
    /\ cancelled[1].price[1]
           \in DOMAIN (IF cancelled[1].side = "BUY" THEN bids ELSE asks)

\* C9: cancel_order of an id that is not in the directory, or whose directory
\* status is FILLED, CANCELLED or REJECTED, returns None and leaves bids, asks
\* and the directory unchanged; a second cancel of a cancelled order is a no-op.
CancelNoOp ==
    [][(/\ call'.op = "cancel_order"
        /\ \/ call'.id \notin DOMAIN orders
           \/ orders[call'.id].status \in Terminal)
       => /\ cancelled' = None
          /\ bids' = bids
          /\ asks' = asks
          /\ orders' = orders]_vars

\* cancel_order was called on an order that was already CANCELLED
CancelledTwice ==
    /\ call.op = "cancel_order"
    /\ call.id \in DOMAIN orders
    /\ orders[call.id].status = "CANCELLED"
    /\ cancelled = None

\* the sum of the quantities of the trades of one call
TotalQuantity(ts) ==
    LET RECURSIVE Sum(_)
        Sum(i) == IF i = 0 THEN 0 ELSE Sum(i - 1) + ts[i].quantity
    IN Sum(Len(ts))

\* C10: a MARKET order left with remaining quantity > 0 when the opposite
\* ladder is exhausted is recorded REJECTED with its residual, rests in
\* neither ladder, and its trades are returned and their effects on the
\* resting orders kept; against an empty opposite ladder it makes no trades
\* and is REJECTED with remaining = original.
MarketResidualRejected ==
    [][(/\ call'.op = "add_order"
        /\ orders'[call'.id].order_type = "MARKET")
       => LET id == call'.id
              now == orders'[id]
              before == IF now.side = "BUY" THEN asks ELSE bids
              after == IF now.side = "BUY" THEN asks' ELSE bids'
          IN /\ now.remaining_quantity > 0 =>
                    /\ now.status = "REJECTED"
                    /\ now.remaining_quantity
                           = now.original_quantity - TotalQuantity(trades')
                    /\ id \notin IdsIn(bids') \cup IdsIn(asks')
                    /\ DOMAIN after = {}
                    /\ {matched'[i].resting.id : i \in DOMAIN matched'}
                           = IdsIn(before)
                    /\ \A i \in DOMAIN trades' :
                           LET r == matched'[i].resting
                           IN /\ trades'[i].quantity = r.remaining_quantity
                              /\ orders'[r.id] =
                                     [r EXCEPT !.remaining_quantity = 0,
                                               !.status = "FILLED"]
             /\ DOMAIN before = {} =>
                    /\ trades' = <<>>
                    /\ now.status = "REJECTED"
                    /\ now.remaining_quantity = now.original_quantity
             /\ IF now.side = "BUY" THEN bids' = bids ELSE asks' = asks
      ]_vars

\* a MARKET order took all the opposite liquidity and was REJECTED for the rest
MarketPartlyFilledRejected ==
    /\ call.op = "add_order"
    /\ orders[call.id].order_type = "MARKET"
    /\ orders[call.id].status = "REJECTED"
    /\ trades # <<>>
    /\ 0 < orders[call.id].remaining_quantity
    /\ orders[call.id].remaining_quantity < orders[call.id].original_quantity

\* the orders resting in a ladder, as <<price, position>> pairs
Slots(book) == UNION {{p} \X DOMAIN book[p] : p \in DOMAIN book}

\* the total remaining quantity resting in a ladder
Liquidity(book) ==
    LET RECURSIVE Sum(_)
        Sum(S) == IF S = {} THEN 0
                  ELSE LET s == CHOOSE x \in S : TRUE
                       IN book[s[1]][s[2]].remaining_quantity + Sum(S \ {s})
    IN Sum(Slots(book))

\* C11: a MARKET order crosses every opposite level whatever its price: when
\* the opposite ladder holds at least original_quantity in total, add_order
\* returns trades whose quantities sum to original_quantity and the order is
\* recorded FILLED with remaining quantity 0.
MarketFillsAgainstLiquidity ==
    [][(/\ call'.op = "add_order"
        /\ orders'[call'.id].order_type = "MARKET"
        /\ Liquidity(IF orders'[call'.id].side = "BUY" THEN asks ELSE bids)
               >= orders'[call'.id].original_quantity)
       => /\ TotalQuantity(trades') = orders'[call'.id].original_quantity
          /\ orders'[call'.id].status = "FILLED"
          /\ orders'[call'.id].remaining_quantity = 0]_vars

\* a MARKET order was filled by two trades at two different prices
MarketFilledAcrossLevels ==
    /\ call.op = "add_order"
    /\ orders[call.id].order_type = "MARKET"
    /\ orders[call.id].status = "FILLED"
    /\ Len(trades) = 2
    /\ trades[1].price # trades[2].price

\* C12: residual of a LIMIT order: after add_order of a LIMIT order, if its
\* remaining quantity is > 0 it is the last order of the level at its own
\* price on its own side, PENDING when the call returned no trades and
\* PARTIAL otherwise; if its remaining quantity is 0 it is FILLED in the
\* directory and rests in neither ladder.
LimitResidual ==
    (call.op = "add_order" /\ orders[call.id].order_type = "LIMIT") =>
        LET o == orders[call.id]
            own == IF o.side = "BUY" THEN bids ELSE asks
            other == IF o.side = "BUY" THEN asks ELSE bids
            p == o.price[1]
        IN IF o.remaining_quantity > 0
           THEN /\ p \in DOMAIN own
                /\ own[p] # <<>>
                /\ own[p][Len(own[p])] = o
                /\ o.status = IF trades = <<>> THEN "PENDING" ELSE "PARTIAL"
                /\ o.id \notin IdsIn(other)
           ELSE /\ o.status = "FILLED"
                /\ o.id \notin IdsIn(bids) \cup IdsIn(asks)

\* a LIMIT order traded, and its residual rests as PARTIAL
LimitPartlyFilledRests ==
    /\ call.op = "add_order"
    /\ orders[call.id].order_type = "LIMIT"
    /\ trades # <<>>
    /\ orders[call.id].status = "PARTIAL"
    /\ call.id \in IdsIn(IF orders[call.id].side = "BUY" THEN bids ELSE asks)

\* C13: every order present in bids or asks has status PENDING or PARTIAL and
\* remaining quantity > 0, and no order whose directory status is FILLED,
\* CANCELLED or REJECTED is present in either ladder.
RestingAreLive ==
    /\ \A book \in {bids, asks} : \A s \in Slots(book) :
           /\ book[s[1]][s[2]].status \in {"PENDING", "PARTIAL"}
           /\ book[s[1]][s[2]].remaining_quantity > 0
    /\ \A id \in DOMAIN orders :
           orders[id].status \in Terminal =>
               id \notin IdsIn(bids) \cup IdsIn(asks)

\* an order rests while an order cancelled at the same price and side and an
\* order filled against that side are in the directory
RestingBesideTerminal ==
    \E id, c, f \in DOMAIN orders :
        /\ id \in IdsIn(bids) \cup IdsIn(asks)
        /\ orders[c].status = "CANCELLED"
        /\ orders[c].side = orders[id].side
        /\ orders[c].price = orders[id].price
        /\ orders[f].status = "FILLED"

\* C14: directory completeness: every order resting in bids or asks is in the
\* directory under its id with identical content, also after a later
\* incoming order has partly filled it.
DirectoryComplete ==
    \A book \in {bids, asks} : \A s \in Slots(book) :
        /\ book[s[1]][s[2]].id \in DOMAIN orders
        /\ orders[book[s[1]][s[2]].id] = book[s[1]][s[2]]

\* a resting order was partly filled by the incoming order of the last call
RestingPartlyFilled ==
    /\ call.op = "add_order"
    /\ \E i \in DOMAIN matched :
           LET r == matched[i].resting
               book == IF r.side = "BUY" THEN bids ELSE asks
           IN /\ r.id \in IdsIn(book)
              /\ orders[r.id].status = "PARTIAL"
              /\ orders[r.id].remaining_quantity < r.remaining_quantity

\* C15: for every order in the directory 0 <= remaining <= original, and its
\* status is FILLED if and only if its remaining quantity is 0.
FilledIffNothingRemains ==
    \A id \in DOMAIN orders :
        /\ 0 <= orders[id].remaining_quantity
        /\ orders[id].remaining_quantity <= orders[id].original_quantity
        /\ orders[id].status = "FILLED" <=> orders[id].remaining_quantity = 0

\* the directory holds a FILLED order, an order REJECTED after a partial
\* fill, and a CANCELLED one
FilledRejectedAndCancelled ==
    \E f, r, c \in DOMAIN orders :
        /\ orders[f].status = "FILLED"
        /\ orders[r].status = "REJECTED"
        /\ orders[r].remaining_quantity < orders[r].original_quantity
        /\ orders[c].status = "CANCELLED"

\* C16: no order id appears in both ladders nor more than once in either
\* ladder.
NoDuplicateIds ==
    /\ IdsIn(bids) \cap IdsIn(asks) = {}
    /\ Cardinality(IdsIn(bids)) = Cardinality(Slots(bids))
    /\ Cardinality(IdsIn(asks)) = Cardinality(Slots(asks))

\* two orders rest at one level, the front one partly filled
TwoRestAtOneLevel ==
    /\ Cardinality(IdsIn(bids) \cup IdsIn(asks)) = 2
    /\ \E book \in {bids, asks} : \E p \in DOMAIN book :
           /\ Len(book[p]) = 2
           /\ book[p][1].status = "PARTIAL"

\* C17: every price level present as a key of bids or asks holds a non-empty
\* sequence of orders: a level is removed by the operation that fills or
\* cancels its last order.
LevelsNonEmpty ==
    /\ \A p \in DOMAIN bids : bids[p] # <<>>
    /\ \A p \in DOMAIN asks : asks[p] # <<>>

\* the last call filled the only order of a level, and that level is gone
\* while another level of the ladder remains
LastOrderOfLevelFilled ==
    /\ call.op = "add_order"
    /\ \E i \in DOMAIN matched :
           LET r == matched[i].resting
               book == IF r.side = "BUY" THEN bids ELSE asks
           IN /\ Len(matched[i].queue) = 1
              /\ orders[r.id].status = "FILLED"
              /\ r.price[1] \notin DOMAIN book
              /\ DOMAIN book # {}

\* C18: buyer/seller assignment: in every trade returned by add_order the
\* buyer order id and buyer broker id are those of an order with side BUY and
\* the seller ids those of an order with side SELL; an incoming BUY is the
\* buyer and the resting order the seller, an incoming SELL is the seller and
\* the resting order the buyer.
BuyerIsBuySellerIsSell ==
    /\ Len(trades) = Len(matched)
    /\ \A i \in DOMAIN trades :
           LET t == trades[i]
               inc == matched[i].incoming
               rest == matched[i].resting
           IN /\ inc.id = call.id
              /\ orders[t.buyer_order_id].side = "BUY"
              /\ orders[t.buyer_order_id].broker_id = t.buyer_broker_id
              /\ orders[t.seller_order_id].side = "SELL"
              /\ orders[t.seller_order_id].broker_id = t.seller_broker_id
              /\ inc.side = "BUY" =>
                     /\ t.buyer_order_id = inc.id
                     /\ t.seller_order_id = rest.id
              /\ inc.side = "SELL" =>
                     /\ t.seller_order_id = inc.id
                     /\ t.buyer_order_id = rest.id

\* an incoming SELL of one broker traded with the resting BUY of another
SellTradesWithOtherBroker ==
    /\ call.op = "add_order"
    /\ orders[call.id].side = "SELL"
    /\ \E i \in DOMAIN trades :
           /\ trades[i].seller_order_id = call.id
           /\ trades[i].buyer_broker_id # trades[i].seller_broker_id

\* an order, a ladder, the directory and a trade list with the broker ids
\* blanked
Anon(o) == [o EXCEPT !.broker_id = 0]

AnonBook(book) ==
    [p \in DOMAIN book |-> [i \in DOMAIN book[p] |-> Anon(book[p][i])]]

AnonOrders(dir) == [id \in DOMAIN dir |-> Anon(dir[id])]

AnonTrades(ts) ==
    [i \in DOMAIN ts |-> [ts[i] EXCEPT !.buyer_broker_id = 0,
                                       !.seller_broker_id = 0]]

\* C19: no self-trade prevention: matching does not depend on broker ids.
\* Every call has, broker ids apart, the outcome of the same call made on the
\* same book with all broker ids replaced by one broker: the same trades
\* (order ids, prices, quantities), ladders and directory.  Two runs of one
\* call sequence differing only in broker ids therefore agree step by step.
BrokerIndependent ==
    [][/\ call'.op = "add_order" =>
              LET now == orders'[call'.id]
                  st0 == [bids |-> AnonBook(bids), asks |-> AnonBook(asks),
                          orders |-> AnonOrders(orders),
                          order |-> NewOrder(call'.id, 0, now.order_type,
                                             now.side, now.price,
                                             now.original_quantity),
                          trades |-> <<>>, matched |-> <<>>]
                  st == IF now.order_type = "LIMIT"
                        THEN process_limit_order(st0)
                        ELSE process_market_order(st0)
              IN /\ AnonBook(bids') = st.bids
                 /\ AnonBook(asks') = st.asks
                 /\ AnonOrders(orders') = st.orders
                 /\ AnonTrades(trades') = st.trades
       /\ call'.op = "cancel_order" =>
              LET id == call'.id
                  rests == /\ id \in DOMAIN orders
                           /\ orders[id].status \in {"PENDING", "PARTIAL"}
              IN /\ trades' = <<>>
                 /\ (cancelled' # None) = rests
                 /\ bids' = IF rests THEN Without(bids, id) ELSE bids
                 /\ asks' = IF rests THEN Without(asks, id) ELSE asks
                 /\ DOMAIN orders' = DOMAIN orders
                 /\ \A k \in DOMAIN orders :
                        orders'[k] = IF rests /\ k = id
                                     THEN [orders[k] EXCEPT
                                              !.status = "CANCELLED"]
                                     ELSE orders[k]
      ]_vars

\* a broker traded with itself while another broker had an order in the book
SelfTrade ==
    /\ Cardinality(KnownBrokers) = 2
    /\ \E i \in DOMAIN trades :
           trades[i].buyer_broker_id = trades[i].seller_broker_id

\* C20: a resting order only partly consumed by an incoming order stays at
\* the front of its level with its remaining quantity reduced by the trade
\* quantity and status PARTIAL, ahead of the orders behind it; a resting
\* order whose remaining quantity equals the trade quantity is removed from
\* the ladder and recorded FILLED in the directory.
PartialStaysFilledLeaves ==
    \A i \in DOMAIN matched :
        LET r == matched[i].resting
            q == trades[i].quantity
            book == IF r.side = "BUY" THEN bids ELSE asks
            p == r.price[1]
        IN IF q < r.remaining_quantity
           THEN /\ p \in DOMAIN book
                /\ book[p] # <<>>
                /\ book[p][1] = [r EXCEPT
                                    !.remaining_quantity = @ - q,
                                    !.status = "PARTIAL"]
                /\ LevelIds(book[p]) = matched[i].queue
                /\ orders[r.id] = book[p][1]
           ELSE /\ q = r.remaining_quantity
                /\ r.id \notin IdsIn(bids) \cup IdsIn(asks)
                /\ orders[r.id] = [r EXCEPT !.remaining_quantity = 0,
                                            !.status = "FILLED"]

\* the front order of a level of two was partly consumed
FrontPartlyConsumed ==
    \E i \in DOMAIN matched :
        /\ Len(matched[i].queue) = 2
        /\ trades[i].quantity < matched[i].resting.remaining_quantity
        /\ matched[i].resting.status = "PENDING"

\* C21: add_order never matches against or modifies the incoming order's own
\* side: after add_order of a BUY (resp. SELL) every order that rested in
\* bids (resp. asks) before is still there with the same remaining quantity,
\* status and queue position, and the only possible change of that ladder is
\* the incoming LIMIT order appended at the tail of the level at its price,
\* also when an order of its side already rests at that price.
OwnSideUntouched ==
    [][call'.op = "add_order" =>
          LET now == orders'[call'.id]
              before == IF now.side = "BUY" THEN bids ELSE asks
              after == IF now.side = "BUY" THEN bids' ELSE asks'
              rests == now.remaining_quantity > 0 /\ now.order_type = "LIMIT"
          IN /\ \A p \in DOMAIN before :
                    /\ p \in DOMAIN after
                    /\ \A i \in DOMAIN before[p] :
                           /\ i \in DOMAIN after[p]
                           /\ after[p][i] = before[p][i]
                           /\ orders'[before[p][i].id] = before[p][i]
             /\ IdsIn(after) \ IdsIn(before)
                    = IF rests THEN {now.id} ELSE {}
             /\ Cardinality(Slots(after))
                    = Cardinality(Slots(before)) + IF rests THEN 1 ELSE 0
             /\ rests =>
                    LET level == after[now.price[1]]
                    IN level[Len(level)] = now
      ]_vars

\* a LIMIT order joined, behind it, an order of its side resting at its price
\* while the opposite ladder held an order
JoinedLevelOfOwnSide ==
    /\ call.op = "add_order"
    /\ trades = <<>>
    /\ LET now == orders[call.id]
           own == IF now.side = "BUY" THEN bids ELSE asks
           other == IF now.side = "BUY" THEN asks ELSE bids
       IN /\ now.order_type = "LIMIT"
          /\ now.price[1] \in DOMAIN own
          /\ Len(own[now.price[1]]) = 2
          /\ own[now.price[1]][2] = now
          /\ DOMAIN other # {}

\* C22: the directory only grows: add_order of an order with a fresh id adds
\* exactly one entry, under that id, whatever the order's final status;
\* cancel_order adds none; no operation removes an entry, so orders that left
\* the ladders by a full fill or a cancellation stay in the directory with
\* their final status and remaining quantity.
DirectoryOnlyGrows ==
    [][/\ DOMAIN orders \subseteq DOMAIN orders'
       /\ call'.op = "add_order" =>
              /\ call'.id \notin DOMAIN orders
              /\ DOMAIN orders' = DOMAIN orders \cup {call'.id}
       /\ call'.op = "cancel_order" => DOMAIN orders' = DOMAIN orders
       /\ \A id \in DOMAIN orders :
              id \notin IdsIn(bids') \cup IdsIn(asks') =>
                  /\ id \in DOMAIN orders'
                  /\ orders'[id].status \in Terminal
                  /\ id \notin IdsIn(bids) \cup IdsIn(asks) =>
                         orders'[id] = orders[id]
      ]_vars

\* the directory holds a FILLED, a REJECTED and a CANCELLED order and the
\* ladders are empty
DirectoryKeepsHistory ==
    /\ DOMAIN bids = {}
    /\ DOMAIN asks = {}
    /\ \E f, r, c \in DOMAIN orders :
           /\ orders[f].status = "FILLED"
           /\ orders[r].status = "REJECTED"
           /\ orders[c].status = "CANCELLED"

\* every PENDING or PARTIAL entry of directory dir is a LIMIT order with a
\* price that rests in the ladder of its side (b for BUY, a for SELL) at the
\* level keyed by that price, and every MARKET entry is FILLED or REJECTED
OpenOrdersRest(dir, b, a) ==
    \A id \in DOMAIN dir :
        /\ dir[id].status \in {"PENDING", "PARTIAL"} =>
               /\ dir[id].order_type = "LIMIT"
               /\ dir[id].price # None
               /\ LET own == IF dir[id].side = "BUY" THEN b ELSE a
                      p == dir[id].price[1]
                  IN /\ p \in DOMAIN own
                     /\ \E i \in DOMAIN own[p] : own[p][i].id = id
        /\ dir[id].order_type = "MARKET" =>
               /\ dir[id].status \in {"FILLED", "REJECTED"}
               /\ id \notin IdsIn(b) \cup IdsIn(a)

MatchingLoopTerminates ==
    [][call'.op = "add_order" =>
          LET now == orders'[call'.id]
              before == IF now.side = "BUY" THEN asks ELSE bids
              after == IF now.side = "BUY" THEN asks' ELSE bids'
              best == IF now.side = "BUY" THEN get_best_ask(after)
                      ELSE get_best_bid(after)
              n == Len(trades')
          IN /\ n = Len(matched')
             /\ n <= Cardinality(Slots(before))
             /\ Cardinality(Slots(after)) >= Cardinality(Slots(before)) - n
             /\ \A i \in 1..n :
                    LET inc == matched'[i].incoming
                        rest == matched'[i].resting
                        q == trades'[i].quantity
                    IN /\ inc.remaining_quantity > 0
                       /\ matched'[i].levels # {}
                       /\ rest.id = matched'[i].queue[1]
                       /\ now.order_type = "LIMIT" =>
                              prices_match(now.side, now.price[1],
                                           trades'[i].price)
                       /\ \/ /\ q = rest.remaining_quantity
                             /\ rest.id \notin IdsIn(after)
                          \/ /\ q = inc.remaining_quantity
                             /\ i = n
                             /\ now.remaining_quantity = 0
                       /\ \A j \in 1..n : i # j =>
                              rest.id # matched'[j].resting.id
             /\ \/ now.remaining_quantity = 0
                \/ DOMAIN after = {}
                \/ /\ now.order_type = "LIMIT"
                   /\ best # None
                   /\ ~prices_match(now.side, now.price[1], best[1].price)
      ]_vars

\* a LIMIT order traded and stopped, with quantity left, at a level it does
\* not cross
StoppedAtUncrossableLevel ==
    /\ call.op = "add_order"
    /\ trades # <<>>
    /\ orders[call.id].order_type = "LIMIT"
    /\ orders[call.id].remaining_quantity > 0
    /\ DOMAIN (IF orders[call.id].side = "BUY" THEN asks ELSE bids) # {}

====
